---- MODULE Spec2Model ----
(***************************************************************************)
(* A model of langchain's MongoDB wrapper (langchain/mongodb_database.py)  *)
(* and of the info tool built on it (langchain/tools/mongodb_database/     *)
(* tool.py).                                                               *)
(*                                                                         *)
(* Strings whose characters matter (collection names, tool inputs, field   *)
(* values) are sequences of one-character strings.  A document is an       *)
(* ordered mapping: a sequence of [k, val] entries, val tagged "str" or    *)
(* "int".  Python's str() of a dict is modelled entry by entry: the key    *)
(* and the repr of the value (a str is quoted, an int is not).             *)
(*                                                                         *)
(* pymongo is outside the repository.  It is modelled at the interface the *)
(* code uses: list_collection_names() lists the live collections,          *)
(* count_documents({}) counts them, find().limit(n) yields a prefix (all   *)
(* documents when n is 0), SON(command) builds the command, command()      *)
(* either raises a PyMongoError or yields a cursor over result documents,  *)
(* and next() on an exhausted cursor raises StopIteration.                 *)
(***************************************************************************)
EXTENDS Integers, Sequences, FiniteSets, TLC

VARIABLES
    dbNames,    \* the live database: names of the collections that exist
    dbDocs,     \* the live database: documents of each collection
    pc,         \* "new" | "ready" (constructed) | "failed" (__init__ raised)
    ctor,       \* the arguments __init__ was called with, and the collections alive then
    ctorErr,    \* the exception __init__ raised
    self,       \* the handle's fields
    op          \* the call that has just returned: arguments, outcome, database calls

vars == <<dbNames, dbDocs, pc, ctor, ctorErr, self, op>>

\* ---------------------------------------------------------------- bounds

MaxDocs == 2
MaxResult == 1
MaxSample == 1
MaxNames == 2

\* ------------------------------------------------------------ the inputs

Users == <<"u">>
Orders == <<"o">>
Names == {Users, Orders}

StrVal(s) == [t |-> "str", v |-> s]
IntVal(d) == [t |-> "int", v |-> d]

\* a stored document: a string longer than ShortLength, a short one, an integer
DocA == << [k |-> "a", val |-> StrVal(<<"p", "q", "r">>)],
           [k |-> "b", val |-> StrVal(<<"s">>)],
           [k |-> "n", val |-> IntVal(<<"1", "2", "3">>)] >>
DocEmpty == << >>

CollectionDocs == {DocA}
ResultDocs == {DocA, DocEmpty}

SeqsUpTo(S, n) == UNION {[1..k -> S] : k \in 0..n}
Range(s) == {s[i] : i \in 1..Len(s)}
Orderings(S) == {s \in [1..Cardinality(S) -> S] : Range(s) = S}

\* max_string_length: shorter than the long string of DocA
ShortLength == 2
StringLengths == {ShortLength}

IntArg(n) == [int |-> TRUE, n |-> n]
NotAnInt == [int |-> FALSE, n |-> 0]
SampleArgs == {IntArg(n) : n \in 0..MaxSample} \cup {NotAnInt}

Fetches == {"all", "one", "many"}

\* what self._db.command(cmd) does: raises a PyMongoError, or yields a cursor
CommandOutcomes ==
    {[ok |-> FALSE, msg |-> "command failed", docs |-> << >>]}
        \cup {[ok |-> TRUE, msg |-> "", docs |-> d] : d \in SeqsUpTo(ResultDocs, MaxResult)}

\* inputs an agent gives the info tool: one name, two names joined by ", ",
\* two names joined by "," alone, a name after a leading space, the empty string
ToolInputs ==
    {Users, Orders, << >>, Users \o <<",", " ">> \o Orders, Users \o <<",">> \o Orders,
     <<" ">> \o Users, Orders \o <<",", " ">> \o Orders \o <<",", " ">> \o Users}

\* ------------------------------------------------------------ outcomes

NoMsg == [what |-> "", names |-> {}]
Return(v) == [raised |-> "none", msg |-> NoMsg, out |-> v]
Raise(cls, m) == [raised |-> cls, msg |-> m, out |-> << >>]

NoOp == [name |-> "none", arg |-> << >>, raised |-> "none", msg |-> NoMsg,
         out |-> << >>, dbcalls |-> << >>]
Called(name, arg, outcome, dbcalls) ==
    [name |-> name, arg |-> arg, raised |-> outcome.raised, msg |-> outcome.msg,
     out |-> outcome.out, dbcalls |-> dbcalls]

NoHandle == [all_collections |-> {}, include_collections |-> {}, ignore_collections |-> {},
             usable_collections |-> {}, sample_docs_in_collection_info |-> 0,
             max_string_length |-> 0]
NoCtor == [include_collections |-> {}, ignore_collections |-> {},
           sample_docs_in_collection_info |-> IntArg(0), max_string_length |-> 0,
           live |-> {}]

\* ------------------------------------------------- MongoDBDatabase.__init__

\* self._db.list_collection_names(): the collections alive at the call
list_collection_names == dbNames

\* mutant: the include filter is not consulted
usable_ignoring_include(h) == h.all_collections \ h.ignore_collections

\* mutant: the collections are listed again at every call
usable_relisted(h) ==
    IF h.include_collections # {} THEN h.include_collections
    ELSE dbNames \ h.ignore_collections

\* get_usable_collection_names(self)
get_usable_collection_names(h) ==
    IF h.include_collections # {} THEN h.include_collections
    ELSE h.all_collections \ h.ignore_collections

\* mutant: when a name is missing, every given name is reported
missing_reports_all(given, all) == IF given \subseteq all THEN {} ELSE given

\* missing_collections = self._include_collections - self._all_collections (and ignore)
missing_collections(given, all) == given \ all

is_int(sample) == sample.int

\* __init__: the exception raised, or the fields of the constructed handle
MongoDBDatabase_init(include, ignore, sample, maxlen) ==
    LET all == list_collection_names
        h == [all_collections |-> all, include_collections |-> include,
              ignore_collections |-> ignore, usable_collections |-> {},
              sample_docs_in_collection_info |-> sample.n, max_string_length |-> maxlen]
        usable == get_usable_collection_names(h)
    IN  IF include # {} /\ ignore # {}
        THEN Raise("ValueError", [what |-> "both", names |-> {}])
        ELSE IF include # {} /\ missing_collections(include, all) # {}
        THEN Raise("ValueError", [what |-> "include_collections",
                                  names |-> missing_collections(include, all)])
        ELSE IF ignore # {} /\ missing_collections(ignore, all) # {}
        THEN Raise("ValueError", [what |-> "ignore_collections",
                                  names |-> missing_collections(ignore, all)])
        ELSE IF ~is_int(sample)
        THEN Raise("TypeError", [what |-> "sample_docs_in_collection_info", names |-> {}])
        ELSE Return([h EXCEPT !.usable_collections = IF usable # {} THEN usable ELSE all])

Construct(include, ignore, sample, maxlen) ==
    /\ pc = "new"
    /\ LET r == MongoDBDatabase_init(include, ignore, sample, maxlen)
       IN  /\ pc' = IF r.raised = "none" THEN "ready" ELSE "failed"
           /\ self' = IF r.raised = "none" THEN r.out ELSE NoHandle
           /\ ctorErr' = [cls |-> r.raised, what |-> r.msg.what, names |-> r.msg.names]
    /\ ctor' = [include_collections |-> include, ignore_collections |-> ignore,
                sample_docs_in_collection_info |-> sample, max_string_length |-> maxlen,
                live |-> dbNames]
    /\ UNCHANGED <<dbNames, dbDocs, op>>

\* ------------------------------------------ get_usable_collection_names()

GetUsableCollectionNames ==
    /\ pc = "ready"
    /\ op' = Called("get_usable_collection_names", << >>,
                    Return(get_usable_collection_names(self)), << >>)
    /\ UNCHANGED <<dbNames, dbDocs, pc, ctor, ctorErr, self>>

\* ------------------------------------------------- get_collection_info()

\* repr() of a field value: a str is quoted, an int is not
repr(val) == IF val.t = "str" THEN <<"'">> \o val.v \o <<"'">> ELSE val.v

\* str() of a document: every key with the repr of its value, in order
dict_str(doc) == [i \in 1..Len(doc) |-> [k |-> doc[i].k, r |-> repr(doc[i].val)]]

\* collection.count_documents({}): a collection that does not exist counts 0
count_documents(name) == Len(dbDocs[name])

\* collection.find().limit(n): pymongo documents a limit of 0 as no limit
find_limit(name, n) ==
    IF n = 0 \/ n >= Len(dbDocs[name]) THEN dbDocs[name]
    ELSE SubSeq(dbDocs[name], 1, n)

\* mutant: only the first requested name is validated
info_missing_first_only(collection_names, all_collection_names) ==
    IF Len(collection_names) = 0 THEN {} ELSE {collection_names[1]} \ all_collection_names

\* missing_collections = set(collection_names).difference(all_collection_names)
info_missing_collections(collection_names, all_collection_names) ==
    Range(collection_names) \ all_collection_names

\* the block of one collection: name, count, sample documents
collection_block(h, name) ==
    [name |-> name, count |-> count_documents(name),
     samples |-> LET docs == find_limit(name, h.sample_docs_in_collection_info)
                 IN  [i \in 1..Len(docs) |-> dict_str(docs[i])]]

\* arg.given = FALSE is collection_names=None; order is the iteration order of the set
get_collection_info(h, arg, order) ==
    LET usable == get_usable_collection_names(h)
        missing == IF arg.given THEN info_missing_collections(arg.names, usable) ELSE {}
        all_collection_names == IF arg.given THEN arg.names ELSE order
    IN  IF missing # {}
        THEN Raise("ValueError", [what |-> "collection_names", names |-> missing])
        ELSE Return([i \in 1..Len(all_collection_names) |->
                        collection_block(h, all_collection_names[i])])

\* the count and the fetch issued per described collection, in order
info_dbcalls(outcome) ==
    IF outcome.raised # "none" THEN << >>
    ELSE [i \in 1..(2 * Len(outcome.out)) |->
            IF i % 2 = 1 THEN [call |-> "count_documents", coll |-> outcome.out[(i + 1) \div 2].name]
            ELSE [call |-> "find", coll |-> outcome.out[i \div 2].name]]

GetCollectionInfo(arg, order) ==
    /\ pc = "ready"
    /\ LET r == get_collection_info(self, arg, order)
       IN  op' = Called("get_collection_info",
                        [given |-> arg.given, names |-> arg.names,
                         order |-> IF arg.given THEN << >> ELSE order],
                        r, info_dbcalls(r))
    /\ UNCHANGED <<dbNames, dbDocs, pc, ctor, ctorErr, self>>

InfoArgs ==
    {[given |-> FALSE, names |-> << >>]}
        \cup {[given |-> TRUE, names |-> ns] : ns \in SeqsUpTo(Names, MaxNames)}

\* ------------------------------------------------------------------ run()

\* line 127 and 133 call truncate_word, a name the module neither defines nor
\* imports (it imports warnings, typing, pymongo, bson and langchain.utils):
\* evaluating the call raises NameError
truncate_word(content, length) == [raised |-> "NameError", value |-> content]

\* {k: truncate_word(v, length=...) for k, v in doc.items()}, then str()
truncated_dict_str(doc, length) ==
    LET calls == [i \in 1..Len(doc) |-> truncate_word(doc[i].val, length)]
    IN  IF \E i \in 1..Len(doc) : calls[i].raised # "none"
        THEN Raise(calls[CHOOSE i \in 1..Len(doc) : calls[i].raised # "none"].raised, NoMsg)
        ELSE Return([i \in 1..Len(doc) |-> [k |-> doc[i].k, r |-> repr(calls[i].value)]])

\* str([{...} for doc in result])
truncated_list_str(docs, length) ==
    LET each == [i \in 1..Len(docs) |-> truncated_dict_str(docs[i], length)]
    IN  IF \E i \in 1..Len(docs) : each[i].raised # "none"
        THEN Raise(each[CHOOSE i \in 1..Len(docs) : each[i].raised # "none"].raised, NoMsg)
        ELSE Return([kind |-> "list", docs |-> [i \in 1..Len(docs) |-> each[i].out]])

\* cursor.next(): the first document, StopIteration on an exhausted cursor
cursor_next(docs) ==
    IF Len(docs) = 0 THEN Raise("StopIteration", NoMsg) ELSE Return(Head(docs))

\* the body of the try block, given what self._db.command(cmd) does
run_try(h, res, fetch) ==
    IF ~res.ok THEN Raise("PyMongoError", [what |-> res.msg, names |-> {}])
    ELSE IF fetch = "all" THEN truncated_list_str(res.docs, h.max_string_length)
    ELSE IF fetch = "one"
    THEN LET first == cursor_next(res.docs)
         IN  IF first.raised # "none" THEN first
             ELSE LET d == truncated_dict_str(first.out, h.max_string_length)
                  IN  IF d.raised # "none" THEN d
                      ELSE Return([kind |-> "dict", docs |-> <<d.out>>])
    ELSE Raise("ValueError", [what |-> "fetch", names |-> {}])

\* mutant: the handler catches a narrower class
caught_operation_failure_only(cls) == cls = "OperationFailure"

\* except errors.PyMongoError: the classes the handler catches
caught(cls) == cls = "PyMongoError"

\* f"Error: {e}"
error_str(msg) == [kind |-> "Error: ", docs |-> <<msg.what>>]

run(h, res, fetch) ==
    LET r == run_try(h, res, fetch)
    IN  IF r.raised # "none" /\ caught(r.raised) THEN Return(error_str(r.msg)) ELSE r

\* self._db.command(cmd) is the first statement that runs, whatever fetch is
run_dbcalls == << [call |-> "command", coll |-> << >>] >>

Run(res, fetch) ==
    /\ pc = "ready"
    /\ op' = Called("run", [res |-> res, fetch |-> fetch], run(self, res, fetch), run_dbcalls)
    /\ UNCHANGED <<dbNames, dbDocs, pc, ctor, ctorErr, self>>

\* --------------------------------------------------- InfoMongoDBTool._run

\* str.split(", "): the pieces between non-overlapping occurrences, left to right
RECURSIVE split(_)
split(s) ==
    LET at == {i \in 1..(Len(s) - 1) : s[i] = "," /\ s[i + 1] = " "}
    IN  IF at = {} THEN <<s>>
        ELSE LET i == CHOOSE j \in at : \A k \in at : j <= k
             IN  <<SubSeq(s, 1, i - 1)>> \o split(SubSeq(s, i + 2, Len(s)))

\* the methods and properties class MongoDBDatabase defines
MongoDBDatabase_attrs ==
    {"__init__", "from_uri", "get_usable_collection_names", "collection_info",
     "get_collection_info", "run"}

\* self.db.get_collection_info_no_throw(collection_names.split(", ")): the class
\* defines no such method, so the attribute lookup raises before anything is called
InfoMongoDBTool_run(collection_names) ==
    Raise("AttributeError", [what |-> "get_collection_info_no_throw", names |-> {}])

InfoToolRun(input) ==
    /\ pc = "ready"
    /\ "get_collection_info_no_throw" \notin MongoDBDatabase_attrs
    /\ op' = Called("InfoMongoDBTool._run", [input |-> input, names |-> split(input)],
                    InfoMongoDBTool_run(input), << >>)
    /\ UNCHANGED <<dbNames, dbDocs, pc, ctor, ctorErr, self>>

\* ----------------------------------------------------- the live database
\* Other clients change the database while the handle lives.  op describes the
\* call that has just returned, so a change of the database clears it.

CreateCollection(name) ==
    /\ name \notin dbNames
    /\ dbNames' = dbNames \cup {name}
    /\ op' = NoOp
    /\ UNCHANGED <<dbDocs, pc, ctor, ctorErr, self>>

DropCollection(name) ==
    /\ name \in dbNames
    /\ dbNames' = dbNames \ {name}
    /\ dbDocs' = [dbDocs EXCEPT ![name] = << >>]
    /\ op' = NoOp
    /\ UNCHANGED <<pc, ctor, ctorErr, self>>

\* an insert creates the collection when it does not exist
InsertDocument(name, doc) ==
    /\ Len(dbDocs[name]) < MaxDocs
    /\ dbNames' = dbNames \cup {name}
    /\ dbDocs' = [dbDocs EXCEPT ![name] = Append(@, doc)]
    /\ op' = NoOp
    /\ UNCHANGED <<pc, ctor, ctorErr, self>>

\* ------------------------------------------------------ the specification

Init ==
    /\ dbNames \in SUBSET Names
    /\ dbDocs = [n \in Names |-> << >>]
    /\ pc = "new"
    /\ ctor = NoCtor
    /\ ctorErr = [cls |-> "none", what |-> "", names |-> {}]
    /\ self = NoHandle
    /\ op = NoOp

Next ==
    \/ \E include \in SUBSET Names, ignore \in SUBSET Names,
          sample \in SampleArgs, maxlen \in StringLengths :
            Construct(include, ignore, sample, maxlen)
    \/ GetUsableCollectionNames
    \/ \E arg \in InfoArgs :
          \E order \in (IF arg.given THEN {<< >>} ELSE Orderings(get_usable_collection_names(self))) :
            GetCollectionInfo(arg, order)
    \/ \E res \in CommandOutcomes, fetch \in Fetches : Run(res, fetch)
    \/ \E input \in ToolInputs : InfoToolRun(input)
    \/ \E name \in Names : CreateCollection(name)
    \/ \E name \in Names : DropCollection(name)
    \/ \E name \in Names, doc \in CollectionDocs : InsertDocument(name, doc)

Spec == Init /\ [][Next]_vars

\* ------------------------------------------------------------- the claims

\* the usable set as the constructor's arguments and the collections alive at
\* construction determine it
UsableAtConstruction ==
    IF ctor.include_collections # {} THEN ctor.include_collections
    ELSE ctor.live \ ctor.ignore_collections

\* C1: on a constructed handle get_usable_collection_names() returns exactly the
\* include set when include is non-empty, otherwise exactly all_collections minus
\* the exclude set, which is all_collections when exclude is empty.
C1_UsableNames ==
    (pc = "ready" /\ op.name = "get_usable_collection_names") =>
        /\ op.raised = "none"
        /\ ctor.include_collections # {} => op.out = ctor.include_collections
        /\ ctor.include_collections = {} =>
               op.out = self.all_collections \ ctor.ignore_collections
        /\ (ctor.include_collections = {} /\ ctor.ignore_collections = {}) =>
               op.out = self.all_collections

C1_Witness ==
    /\ pc = "ready"
    /\ op.name = "get_usable_collection_names"
    /\ ctor.include_collections = {Users}
    /\ self.all_collections = Names
    /\ op.out = {Users}

C3_InfoRejectsUnusable ==
    (pc = "ready" /\ op.name = "get_collection_info" /\ op.arg.given
        /\ ~(Range(op.arg.names) \subseteq UsableAtConstruction)) =>
            /\ op.raised = "ValueError"
            /\ op.msg.what = "collection_names"
            /\ op.msg.names = Range(op.arg.names) \ UsableAtConstruction
            /\ op.dbcalls = << >>
            /\ op.out = << >>

C3_Witness ==
    /\ pc = "ready"
    /\ op.name = "get_collection_info"
    /\ op.arg.given
    /\ op.arg.names = <<Users, Orders>>
    /\ ctor.include_collections = {Users}
    /\ Orders \in dbNames
    /\ op.raised = "ValueError"
    /\ op.msg.names = {Orders}

\* C4: when the command fails at the database level and fetch is "all" or
\* "one", run returns the string "Error: <message>" and does not raise.
C4_DatabaseFailureReturned ==
    (op.name = "run" /\ ~op.arg.res.ok /\ op.arg.fetch \in {"all", "one"}) =>
        /\ op.raised = "none"
        /\ op.out = [kind |-> "Error: ", docs |-> <<op.arg.res.msg>>]

C4_Witness ==
    /\ op.name = "run"
    /\ ~op.arg.res.ok
    /\ op.arg.fetch = "one"
    /\ op.raised = "none"
    /\ op.out.kind = "Error: "

\* the exception classes that are ValueError or derive from it
ValueErrorClasses == {"ValueError", "UnicodeError"}

\* C5: run with fetch="one" on zero result documents raises a ValueError-class
\* error to the caller; with fetch="all" it returns the rendering of an empty
\* sequence and no error.
C5_EmptyResultRaisesValueError ==
    (op.name = "run" /\ op.arg.res.ok /\ op.arg.res.docs = << >>) =>
        /\ op.arg.fetch = "one" => op.raised \in ValueErrorClasses
        /\ op.arg.fetch = "all" =>
               (op.raised = "none" /\ op.out = [kind |-> "list", docs |-> << >>])

\* C6: run with a fetch other than "all" or "one" raises a ValueError without
\* sending the command to the database, whether or not the command would fail.
C6_InvalidFetchBeforeDatabase ==
    (op.name = "run" /\ op.arg.fetch \notin {"all", "one"}) =>
        /\ op.raised = "ValueError"
        /\ \A i \in 1..Len(op.dbcalls) : op.dbcalls[i].call # "command"

\* the truncation the claims describe: a string longer than n becomes its
\* first n characters followed by "...", any other value is unchanged
Truncated(val, n) ==
    IF val.t = "str" /\ Len(val.v) > n
    THEN StrVal(SubSeq(val.v, 1, n) \o <<".", ".", ".">>)
    ELSE val
TruncatedDictStr(doc, n) ==
    [i \in 1..Len(doc) |-> [k |-> doc[i].k, r |-> repr(Truncated(doc[i].val, n))]]

\* C7: when the command succeeds (fetch "all", or "one" with a document to
\* take), run returns the rendering of the result in which every top-level
\* string value longer than max_string_length is its first max_string_length
\* characters followed by "..." and every other value is unchanged.
C7_RunTruncates ==
    (op.name = "run" /\ op.arg.res.ok) =>
        /\ op.arg.fetch = "all" =>
               /\ op.raised = "none"
               /\ op.out = [kind |-> "list",
                            docs |-> [i \in 1..Len(op.arg.res.docs) |->
                                TruncatedDictStr(op.arg.res.docs[i], self.max_string_length)]]
        /\ (op.arg.fetch = "one" /\ op.arg.res.docs # << >>) =>
               /\ op.raised = "none"
               /\ op.out = [kind |-> "dict",
                            docs |-> <<TruncatedDictStr(op.arg.res.docs[1],
                                                        self.max_string_length)>>]

\* the names get_collection_info described, in order
Described == IF op.arg.given THEN op.arg.names ELSE op.arg.order

\* C8: each block of get_collection_info holds the collection's name, its exact
\* document count and at most sample_docs_in_collection_info sample documents,
\* each rendered with its string values truncated to max_string_length.
C8_InfoBlocks ==
    (op.name = "get_collection_info" /\ op.raised = "none") =>
        /\ Len(op.out) = Len(Described)
        /\ \A i \in 1..Len(op.out) :
               /\ op.out[i].name = Described[i]
               /\ op.out[i].count = Len(dbDocs[Described[i]])
               /\ Len(op.out[i].samples) <= self.sample_docs_in_collection_info
               /\ \A j \in 1..Len(op.out[i].samples) :
                      op.out[i].samples[j] =
                          TruncatedDictStr(dbDocs[Described[i]][j], self.max_string_length)

\* C9: the info tool splits its input on ", " and, when a resulting name is not
\* a usable collection, returns the lookup error as a string and does not raise.
C9_InfoToolNoThrow ==
    (op.name = "InfoMongoDBTool._run"
        /\ op.arg.names = split(op.arg.input)
        /\ ~(Range(op.arg.names) \subseteq UsableAtConstruction)) =>
            op.raised = "none"

\* C10: the collections are a snapshot taken at construction: whatever is
\* created or dropped afterwards and whatever is called, the handle's include,
\* exclude and all-collections sets stay what construction made them,
\* get_usable_collection_names() returns the set it returned at construction,
\* and get_collection_info accepts no collection created after construction.
C10_SnapshotFrozen ==
    pc = "ready" =>
        /\ self.all_collections = ctor.live
        /\ self.include_collections = ctor.include_collections
        /\ self.ignore_collections = ctor.ignore_collections
        /\ op.name = "get_usable_collection_names" => op.out = UsableAtConstruction
        /\ (op.name = "get_collection_info" /\ op.raised = "none") =>
               /\ Range(Described) \subseteq UsableAtConstruction
               /\ Range(Described) \cap (Names \ ctor.live) = {}

C10_Witness ==
    /\ pc = "ready"
    /\ op.name = "get_collection_info"
    /\ op.arg.given
    /\ ctor.live = {Users}
    /\ ctor.include_collections = {}
    /\ Orders \in dbNames
    /\ Orders \in Range(op.arg.names)
    /\ op.raised = "ValueError"

====
